---- MODULE Spec2Model ----
(***************************************************************************)
(* gddns: a one-shot dynamic-DNS reconciler (src/main.go).                 *)
(*                                                                         *)
(* One process run is init() followed by main().  The model keeps the      *)
(* state that outlives a run (the files under the two data paths and the   *)
(* DNS provider's records) and the state of the run in progress (the       *)
(* position in main, the in-memory Config, the result of the first create).*)
(* Every call a run makes to the outside (file, environment, IP echo       *)
(* service, provider) is one atomic step whose result is chosen            *)
(* nondeterministically, and is appended to the run's trace.               *)
(* Runs are serialized: a run starts only when none is in progress.        *)
(***************************************************************************)
EXTENDS Integers, Sequences, FiniteSets, TLC

\* Number of process runs explored.
MaxRuns == 3

VARIABLES
    setDevMode,   \* main.go:18, set at link time
    dataPath,     \* main.go:19, set by init()
    fs,           \* the files <dataPath>/config.json, by path
    provider,     \* the DNS records held by the provider
    nextID,       \* number of record ids the provider has issued
    pc,           \* position of the run in progress
    config,       \* the run's *Config
    record,       \* createRecords' local `record` (result of the A create)
    exit,         \* how the last run ended: code, log line and error
    trace,        \* the outside calls of the run in progress, in order
    runs,         \* number of runs started
    loaded,       \* what the run decoded from the state file
    startCount,   \* number of provider records when the run started
    prev,         \* summary of the previous run
    created,      \* ids and types of the records created by the tool
    me,           \* number of the run in progress
    parked        \* a second process, while the one in progress holds the processor

vars == <<setDevMode, dataPath, fs, provider, nextID, pc, config, record,
          exit, trace, runs, loaded, startCount, prev, created, me, parked>>

----------------------------------------------------------------------------
(* Values *)

DevModes == {"false", "true"}
Paths == {"/etc/gddns/config.json", "./config.json"}
ApiKeys == {"", "key"}
Emails == {"", "me@example.com"}
\* Bodies the IP echo service may answer with; the status code is not looked at.
IPs == {"203.0.113.7", "198.51.100.2", "502 Bad Gateway"}
Times == {1, 2}

\* A file of the state store: absent, undecodable (cut short) or a JSON object.
NoFile == [kind |-> "absent", domain |-> "", cname |-> "", zone_id |-> "", record_id |-> ""]
PartialFile == [kind |-> "partial", domain |-> "", cname |-> "", zone_id |-> "", record_id |-> ""]

\* type CfgFile
CfgFile(domain, cname, zoneID, recordID) ==
    [Domain |-> domain, CNAME |-> cname, ZoneID |-> zoneID, RecordID |-> recordID]

\* type Config: the embedded *CfgFile and Env
ZeroConfig ==
    [Domain |-> "", CNAME |-> "", ZoneID |-> "", RecordID |-> "",
     Env |-> [CFEmail |-> "", CFApiKey |-> "", SysIP |-> ""]]

\* json.MarshalIndent of a CfgFile: the object's keys are the json tags.
Marshal(cfgdata) ==
    [kind |-> "json", domain |-> cfgdata.Domain, cname |-> cfgdata.CNAME,
     zone_id |-> cfgdata.ZoneID, record_id |-> cfgdata.RecordID]

\* Mutant of Decode: the record_id key is not read.
DecodeWithoutRecordID(file) ==
    [Domain |-> file.domain, CNAME |-> file.cname, ZoneID |-> file.zone_id, RecordID |-> "",
     Env |-> [CFEmail |-> "", CFApiKey |-> "", SysIP |-> ""]]

\* json Decode into a Config: the tagged keys fill the embedded CfgFile, Env stays zero.
Decode(file) ==
    [ZeroConfig EXCEPT !.Domain = file.domain, !.CNAME = file.cname,
                       !.ZoneID = file.zone_id, !.RecordID = file.record_id]

\* strings.Join([]string{dataPath, "config.json"}, "/")
ConfigPath(dir) == dir \o "/" \o "config.json"

\* A record of the provider.
NoData == [service |-> "", proto |-> "", name |-> "", priority |-> 0, weight |-> 0,
           port |-> 0, target |-> ""]
ProviderRecord(id, zone, p) ==
    [id |-> id, zone |-> zone, type |-> p.Type, name |-> p.Name, content |-> p.Content,
     ttl |-> p.TTL, proxied |-> p.Proxied, comment |-> p.Comment, data |-> p.Data]

\* Records the provider may hold before the tool ever ran.
ExtA == [id |-> "rec123", zone |-> "z1", type |-> "A", name |-> "home",
         content |-> "192.0.2.1", ttl |-> 1, proxied |-> FALSE, comment |-> "", data |-> NoData]
ExtTXT == [ExtA EXCEPT !.id = "ext1", !.type = "TXT", !.content = "v=spf1 -all"]
ExtOther == [ExtA EXCEPT !.id = "ext2", !.name = "www"]
InitialProviders == {{}, {ExtTXT, ExtOther}, {ExtA}, {ExtA, ExtTXT, ExtOther}}

\* State files a user may have installed.
InitialFiles ==
    {NoFile}
    \cup {Marshal(CfgFile("example.com", "home", "z1", rid)) : rid \in {"", "rec123"}}
    \cup {Marshal(CfgFile("example.org", "mc", "z1", ""))}

NoRecord == [ID |-> ""]
NoExit == [code |-> 0, msg |-> "", err |-> ""]
NoPrev == [managed |-> FALSE, loaded |-> NoFile, ip |-> "", trace |-> <<>>, count |-> 0]

\* The memory of a process that has not started.
NoRun ==
    [dataPath |-> "", pc |-> "idle", config |-> ZeroConfig, record |-> NoRecord,
     exit |-> NoExit, trace |-> <<>>, loaded |-> NoFile, startCount |-> 0, me |-> 0]

----------------------------------------------------------------------------
(* The provider's operations, as the calls of main.go use them *)

\* ID of the next record the provider creates.
NewID(n) == "id" \o ToString(n)

\* ListDNSRecords(zone, {Type, Name}): the zone's records of that type and name.
ListDNSRecords(zone, p) ==
    {r \in provider : r.zone = zone /\ r.type = p.Type /\ r.name = p.Name}

\* UpdateDNSRecord(zone, params) rewrites the record whose id is params.ID.
UpdateDNSRecord(zone, p) ==
    {IF r.zone = zone /\ r.id = p.ID
        THEN [r EXCEPT !.type = p.Type, !.name = p.Name, !.content = p.Content,
                       !.ttl = p.TTL, !.proxied = p.Proxied, !.comment = p.Comment]
        ELSE r : r \in provider}

----------------------------------------------------------------------------
(* Parameters of the calls *)

\* Mutant of UpdateParams: the TTL of the create path.
UpdateParamsCreateTTL(cfg) ==
    [ID |-> cfg.RecordID, Type |-> "A", Name |-> cfg.CNAME, Content |-> cfg.Env.SysIP,
     TTL |-> 300, Comment |-> "Automatically set by gddns", Proxied |-> FALSE]

\* Mutant of UpdateParams: the comment of the create path, which changes with each run.
UpdateParamsStamped(cfg) ==
    [ID |-> cfg.RecordID, Type |-> "A", Name |-> cfg.CNAME, Content |-> cfg.Env.SysIP,
     TTL |-> 120, Comment |-> "Automatically set by gddns at " \o ToString(runs),
     Proxied |-> FALSE]

\* updateRecord: cloudflare.UpdateDNSRecordParams
UpdateParams(cfg) ==
    [ID |-> cfg.RecordID, Type |-> "A", Name |-> cfg.CNAME, Content |-> cfg.Env.SysIP,
     TTL |-> 120, Comment |-> "Automatically set by gddns", Proxied |-> FALSE]

\* Mutant of ListParams: the conflict check looks for another record type.
ListParamsWrongType(cfg) == [Type |-> "AAAA", Name |-> cfg.CNAME]

\* findRecord: cloudflare.ListDNSRecordsParams
ListParams(cfg) == [Type |-> "A", Name |-> cfg.CNAME]

\* fmt.Sprintf("Automatically set by gddns at %s", time.Now().String())
CreateComment(now) == "Automatically set by gddns at " \o ToString(now)

\* Mutant of CnameFull: the label and the domain are joined without the dot.
CnameFullNoDot(cfg) == cfg.CNAME \o cfg.Domain

\* createRecords: cnameFull
CnameFull(cfg) == cfg.CNAME \o "." \o cfg.Domain

\* Mutant of CreateAParams: the content is left unset.
CreateAParamsNoContent(cfg, now) ==
    [Type |-> "A", Name |-> cfg.CNAME, Content |-> "", TTL |-> 300,
     Proxied |-> FALSE, Comment |-> CreateComment(now), Data |-> NoData]

\* createRecords: the first cloudflare.CreateDNSRecordParams
CreateAParams(cfg, now) ==
    [Type |-> "A", Name |-> cfg.CNAME, Content |-> cfg.Env.SysIP, TTL |-> 300,
     Proxied |-> FALSE, Comment |-> CreateComment(now), Data |-> NoData]

\* createRecords: the second cloudflare.CreateDNSRecordParams
CreateSRVParams(cfg, now) ==
    [Type |-> "SRV", Name |-> cfg.CNAME, Content |-> "", TTL |-> 900,
     Proxied |-> FALSE, Comment |-> CreateComment(now),
     Data |-> [service |-> "_minecraft", proto |-> "_tcp", name |-> CnameFull(cfg),
               priority |-> 0, weight |-> 5, port |-> 25565, target |-> CnameFull(cfg)]]

\* Mutant of SaveData: the resolved IP is kept in the saved record.
SaveDataWithIP(cfg) == CfgFile(cfg.Domain, cfg.CNAME, cfg.ZoneID, cfg.Env.SysIP)

\* saveConfig: cfgdata
SaveData(cfg) == CfgFile(cfg.Domain, cfg.CNAME, cfg.ZoneID, cfg.RecordID)

----------------------------------------------------------------------------
(* Steps of a run *)

\* Mutant of IsManaged: the wrong field is tested.
IsManagedByZoneID(cfg) == cfg.ZoneID # ""

\* Mutant of CredsMissing: only the API key is tested.
CredsMissingKeyOnly(key, email) == key = ""

\* loadConfigAndEnv line 61: config.Env.CFApiKey == "" || config.Env.CFEmail == ""
CredsMissing(key, email) == key = "" \/ email = ""

\* main line 204: config.RecordID != ""
IsManaged(cfg) == cfg.RecordID # ""

\* Mutant of ConflictFound: one match is let through.
ConflictFoundAboveOne(count) == count > 1

\* findRecord line 120: r.Count != 0
ConflictFound(count) == count # 0

\* Mutant of NewRecordID: the id of the second create.
NewRecordIDOfSRV(first, second) == second.ID

\* createRecords line 163: config.RecordID = record.ID, the result of the first create
NewRecordID(first, second) == first.ID

\* An outside call as the trace records it.
Call(op, zone, params, ret, ok) ==
    [op |-> op, zone |-> zone, params |-> params, ret |-> ret, ok |-> ok]

\* log.Fatal / log.Fatalf: the process exits with status 1.
Fatal(msg, err) ==
    /\ pc' = "exited"
    /\ exit' = [code |-> 1, msg |-> msg, err |-> err]

\* main returns: the process exits with status 0.
Return(msg) ==
    /\ pc' = "exited"
    /\ exit' = [code |-> 0, msg |-> msg, err |-> ""]

\* What a run leaves for the comparison with the next one.
Summary ==
    IF /\ pc = "exited"
       /\ loaded.kind = "json" /\ loaded.record_id # ""
       /\ \E i \in DOMAIN trace : trace[i].op = "getPublicIP" /\ trace[i].ok
        THEN [managed |-> TRUE, loaded |-> loaded, ip |-> config.Env.SysIP,
              trace |-> trace, count |-> startCount]
        ELSE NoPrev

\* The scheduler starts the process: fresh memory, the files and the provider stay.
StartRun ==
    /\ pc \in {"idle", "exited"}
    /\ runs < MaxRuns
    /\ runs' = runs + 1
    /\ pc' = "init"
    /\ dataPath' = ""
    /\ config' = ZeroConfig
    /\ record' = NoRecord
    /\ exit' = NoExit
    /\ trace' = <<>>
    /\ loaded' = NoFile
    /\ startCount' = Cardinality(provider)
    /\ prev' = Summary
    /\ me' = runs + 1
    /\ UNCHANGED <<parked, setDevMode, fs, provider, nextID, created>>

\* func init
GoInit ==
    /\ pc = "init"
    /\ dataPath' = IF setDevMode = "false" THEN "/etc/gddns" ELSE "."
    /\ \E ok \in BOOLEAN :
         /\ trace' = Append(trace, Call("godotenv.Load", "", [path |-> dataPath' \o "/" \o ".env.example"], "", ok))
         /\ IF ok
               THEN pc' = "load" /\ UNCHANGED exit
               ELSE Fatal("Error loading .env.example file", "io error")
    /\ UNCHANGED <<me, parked, setDevMode, fs, provider, nextID, config, record, runs, loaded,
                   startCount, prev, created>>

\* setup, loadConfigAndEnv lines 49-57: open and decode the state file
LoadConfigFile ==
    /\ pc = "load"
    /\ LET path == ConfigPath(dataPath)
           file == fs[path]
       IN \E readable \in BOOLEAN :
            LET ok == readable /\ file.kind = "json"
            IN /\ trace' = Append(trace, Call("os.Open", "", [path |-> path], "", ok))
               /\ IF ok
                     THEN /\ config' = Decode(file)
                          /\ loaded' = file
                          /\ pc' = "env"
                          /\ UNCHANGED exit
                     ELSE /\ Fatal("Setup failed",
                                   IF ~readable \/ file.kind = "absent"
                                      THEN "open error" ELSE "decode error")
                          /\ UNCHANGED <<config, loaded>>
    /\ UNCHANGED <<me, parked, setDevMode, dataPath, fs, provider, nextID, record, runs,
                   startCount, prev, created>>

\* loadConfigAndEnv lines 59-63: the credentials from the environment
ReadEnv ==
    /\ pc = "env"
    /\ \E key \in ApiKeys, email \in Emails :
         /\ config' = [config EXCEPT !.Env.CFApiKey = key, !.Env.CFEmail = email]
         /\ trace' = Append(trace, Call("os.Getenv", "", [key |-> key, email |-> email], "",
                                        key # "" /\ email # ""))
         /\ IF CredsMissing(key, email)
               THEN Fatal("Cloudflare API credentials are not set in environment variables.", "")
               ELSE pc' = "ip" /\ UNCHANGED exit
    /\ UNCHANGED <<me, parked, setDevMode, dataPath, fs, provider, nextID, record, runs, loaded,
                   startCount, prev, created>>

\* loadConfigAndEnv lines 65-72 and setup lines 175-180: the public IP, then the client
GetPublicIP ==
    /\ pc = "ip"
    /\ \E ok \in BOOLEAN, ip \in IPs :
         /\ trace' = Append(trace, Call("getPublicIP", "", [url |-> "https://api.ipify.org?format=text"],
                                        IF ok THEN ip ELSE "", ok))
         /\ IF ~ok
               THEN /\ Fatal("Error getting public IP", "network error")
                    /\ UNCHANGED config
               ELSE /\ config' = [config EXCEPT !.Env.SysIP = ip]
                    /\ IF config.Env.CFApiKey = "" \/ config.Env.CFEmail = ""
                          THEN Fatal("Setup failed", "error initializing Cloudflare client")
                          ELSE pc' = "main" /\ UNCHANGED exit
    /\ UNCHANGED <<me, parked, setDevMode, dataPath, fs, provider, nextID, record, runs, loaded,
                   startCount, prev, created>>

\* Mutant of UpdateRecord: a failed update is tried again.
UpdateRecordRetry ==
    /\ pc = "main"
    /\ config.RecordID # ""
    /\ LET zone == config.ZoneID
           recordParams == UpdateParams(config)
           found == \E r \in provider : r.zone = zone /\ r.id = recordParams.ID
       IN \E ok \in BOOLEAN :
            /\ ok => found
            /\ trace' = Append(trace, [op |-> "UpdateDNSRecord", zone |-> zone,
                                       params |-> recordParams, ret |-> "", ok |-> ok])
            /\ IF ok
                  THEN /\ provider' = UpdateDNSRecord(zone, recordParams)
                       /\ pc' = "exited"
                       /\ exit' = [code |-> 0, msg |-> "DNS record updated successfully.", err |-> ""]
                  ELSE UNCHANGED <<provider, pc, exit>>
    /\ UNCHANGED <<me, parked, setDevMode, dataPath, fs, nextID, config, record, runs, loaded,
                   startCount, prev, created>>

\* Mutant of UpdateRecord: a failed update falls back to the create path.
UpdateRecordFallback ==
    /\ pc = "main"
    /\ config.RecordID # ""
    /\ LET zone == config.ZoneID
           recordParams == UpdateParams(config)
           found == \E r \in provider : r.zone = zone /\ r.id = recordParams.ID
       IN \E ok \in BOOLEAN :
            /\ ok => found
            /\ trace' = Append(trace, [op |-> "UpdateDNSRecord", zone |-> zone,
                                       params |-> recordParams, ret |-> "", ok |-> ok])
            /\ IF ok
                  THEN /\ provider' = UpdateDNSRecord(zone, recordParams)
                       /\ pc' = "exited"
                       /\ exit' = [code |-> 0, msg |-> "DNS record updated successfully.", err |-> ""]
                  ELSE /\ pc' = "createA"
                       /\ UNCHANGED <<provider, exit>>
    /\ UNCHANGED <<me, parked, setDevMode, dataPath, fs, nextID, config, record, runs, loaded,
                   startCount, prev, created>>

\* main lines 204-210 with updateRecord
UpdateRecord ==
    /\ pc = "main"
    /\ IsManaged(config)
    /\ LET zone == config.ZoneID
           recordParams == UpdateParams(config)
           found == \E r \in provider : r.zone = zone /\ r.id = recordParams.ID
       IN \E ok \in BOOLEAN :
            /\ ok => found
            /\ trace' = Append(trace, Call("UpdateDNSRecord", zone, recordParams, "", ok))
            /\ IF ok
                  THEN /\ provider' = UpdateDNSRecord(zone, recordParams)
                       /\ Return("DNS record updated successfully.")
                  ELSE /\ UNCHANGED provider
                       /\ Fatal("Error updating DNS record", "provider error")
    /\ UNCHANGED <<me, parked, setDevMode, dataPath, fs, nextID, config, record, runs, loaded,
                   startCount, prev, created>>

\* main lines 212-217 with findRecord
FindRecord ==
    /\ pc = "main"
    /\ ~IsManaged(config)
    /\ config.RecordID = ""
    /\ LET zone == config.ZoneID
           params == ListParams(config)
           count == Cardinality(ListDNSRecords(zone, params))
       IN \E ok \in BOOLEAN :
            /\ trace' = Append(trace, Call("ListDNSRecords", zone, params, IF ok THEN count ELSE 0, ok))
            /\ IF ~ok
                  THEN Fatal("Error veryifying dns state", "provider error")
                  ELSE IF ConflictFound(count)
                          THEN Fatal("Error veryifying dns state", "record already exists")
                          ELSE pc' = "createA" /\ UNCHANGED exit
    /\ UNCHANGED <<me, parked, setDevMode, dataPath, fs, provider, nextID, config, record, runs,
                   loaded, startCount, prev, created>>

\* Mutant of CreateRecordA: the error of the A create is not checked.
CreateRecordAUnchecked ==
    /\ pc = "createA"
    /\ \E ok \in BOOLEAN, now \in Times :
         LET zone == config.ZoneID
             params == CreateAParams(config, now)
             id == "id" \o ToString(nextID + 1)
         IN /\ trace' = Append(trace, [op |-> "CreateDNSRecord", zone |-> zone, params |-> params,
                                       ret |-> IF ok THEN id ELSE "", ok |-> ok])
            /\ IF ok
                  THEN /\ provider' = provider \cup {ProviderRecord(id, zone, params)}
                       /\ nextID' = nextID + 1
                       /\ created' = created \cup {[id |-> id, type |-> params.Type, run |-> me]}
                       /\ record' = [ID |-> id]
                  ELSE UNCHANGED <<provider, nextID, created, record>>
            /\ pc' = "createSRV"
    /\ UNCHANGED <<me, parked, setDevMode, dataPath, fs, config, runs, loaded, startCount, prev, exit>>

\* main lines 219-223 with createRecords lines 128-140: the A record
CreateRecordA ==
    /\ pc = "createA"
    /\ \E ok \in BOOLEAN, now \in Times :
         LET zone == config.ZoneID
             params == CreateAParams(config, now)
             id == NewID(nextID + 1)
         IN /\ trace' = Append(trace, Call("CreateDNSRecord", zone, params, IF ok THEN id ELSE "", ok))
            /\ IF ok
                  THEN /\ provider' = provider \cup {ProviderRecord(id, zone, params)}
                       /\ nextID' = nextID + 1
                       /\ created' = created \cup {[id |-> id, type |-> params.Type, run |-> me]}
                       /\ record' = [ID |-> id]
                       /\ pc' = "createSRV"
                       /\ UNCHANGED exit
                  ELSE /\ Fatal("Error creating records", "provider error")
                       /\ UNCHANGED <<provider, nextID, created, record>>
    /\ UNCHANGED <<me, parked, setDevMode, dataPath, fs, config, runs, loaded, startCount, prev>>

\* Mutant of CreateRecordSRV: the error of the SRV create is not checked.
CreateRecordSRVUnchecked ==
    /\ pc = "createSRV"
    /\ \E ok \in BOOLEAN, now \in Times :
         LET zone == config.ZoneID
             params == CreateSRVParams(config, now)
             id == "id" \o ToString(nextID + 1)
         IN /\ trace' = Append(trace, [op |-> "CreateDNSRecord", zone |-> zone, params |-> params,
                                       ret |-> IF ok THEN id ELSE "", ok |-> ok])
            /\ IF ok
                  THEN /\ provider' = provider \cup {ProviderRecord(id, zone, params)}
                       /\ nextID' = nextID + 1
                       /\ created' = created \cup {[id |-> id, type |-> params.Type, run |-> me]}
                  ELSE UNCHANGED <<provider, nextID, created>>
            /\ config' = [config EXCEPT !.RecordID = record.ID]
            /\ pc' = "save"
    /\ UNCHANGED <<me, parked, setDevMode, dataPath, fs, record, runs, loaded, startCount, prev, exit>>

\* createRecords lines 142-165: the SRV record, then config.RecordID = record.ID
CreateRecordSRV ==
    /\ pc = "createSRV"
    /\ \E ok \in BOOLEAN, now \in Times :
         LET zone == config.ZoneID
             params == CreateSRVParams(config, now)
             id == NewID(nextID + 1)
         IN /\ trace' = Append(trace, Call("CreateDNSRecord", zone, params, IF ok THEN id ELSE "", ok))
            /\ IF ok
                  THEN /\ provider' = provider \cup {ProviderRecord(id, zone, params)}
                       /\ nextID' = nextID + 1
                       /\ created' = created \cup {[id |-> id, type |-> params.Type, run |-> me]}
                       /\ config' = [config EXCEPT !.RecordID = NewRecordID(record, [ID |-> id])]
                       /\ pc' = "save"
                       /\ UNCHANGED exit
                  ELSE /\ Fatal("Error creating records", "provider error")
                       /\ UNCHANGED <<provider, nextID, created, config>>
    /\ UNCHANGED <<me, parked, setDevMode, dataPath, fs, record, runs, loaded, startCount, prev>>

\* main lines 225-232 with saveConfig.  os.WriteFile truncates the file and then
\* writes: when it fails the file holds the old content, a cut-short one, or all of
\* the new one.
SaveConfig ==
    /\ pc = "save"
    /\ LET path == ConfigPath(dataPath)
           data == Marshal(SaveData(config))
       IN \E ok \in BOOLEAN :
            /\ trace' = Append(trace, Call("os.WriteFile", "", [path |-> path, data |-> data, perm |-> "0600"], "", ok))
            /\ IF ok
                  THEN /\ fs' = [fs EXCEPT ![path] = data]
                       /\ Return("DNS record saved successfully.")
                  ELSE /\ \E left \in {fs[path], PartialFile, data} :
                            fs' = [fs EXCEPT ![path] = left]
                       /\ Fatal("Error saving config", "io error")
    /\ UNCHANGED <<me, parked, setDevMode, dataPath, provider, nextID, config, record, runs, loaded,
                   startCount, prev, created>>

\* The process is killed inside os.WriteFile (saveConfig line 87).  The file was opened
\* with O_TRUNC and is written in place: it is left as it was (killed before the open),
\* cut short (killed after the open, before the last byte), or complete.
CrashInSave ==
    /\ pc = "save"
    /\ LET path == ConfigPath(dataPath)
           data == Marshal(SaveData(config))
       IN /\ trace' = Append(trace, Call("os.WriteFile", "", [path |-> path, data |-> data, perm |-> "0600"], "", FALSE))
          /\ \E left \in {fs[path], PartialFile, data} :
               fs' = [fs EXCEPT ![path] = left]
    /\ pc' = "exited"
    /\ exit' = [code |-> 137, msg |-> "", err |-> "killed"]
    /\ UNCHANGED <<me, parked, setDevMode, dataPath, provider, nextID, config, record, runs,
                   loaded, startCount, prev, created>>

\* The memory of the process in progress.
Local ==
    [dataPath |-> dataPath, pc |-> pc, config |-> config, record |-> record,
     exit |-> exit, trace |-> trace, loaded |-> loaded, startCount |-> startCount, me |-> me]

\* Positions whose next step reads or writes what the processes share: the state file
\* and the provider.  The other steps touch the process's own memory only, so the
\* processor changes hands at these positions without loss of interleavings.
SharedSteps == {"load", "main", "createA", "createSRV", "save"}

\* The scheduler starts a second process while the first is still in main: nothing in
\* init or main takes a lock or looks for another instance.
StartOverlap ==
    /\ pc \in SharedSteps
    /\ parked = NoRun
    /\ parked' = Local
    /\ runs' = runs + 1
    /\ me' = runs + 1
    /\ pc' = "init"
    /\ dataPath' = ""
    /\ config' = ZeroConfig
    /\ record' = NoRecord
    /\ exit' = NoExit
    /\ trace' = <<>>
    /\ loaded' = NoFile
    /\ startCount' = Cardinality(provider)
    /\ UNCHANGED <<setDevMode, fs, provider, nextID, prev, created>>

\* The operating system gives the processor to the other process, between two calls.
Switch ==
    /\ pc \in SharedSteps \cup {"exited"}
    /\ parked.pc \notin {"idle", "exited"}
    /\ parked' = Local
    /\ dataPath' = parked.dataPath
    /\ pc' = parked.pc
    /\ config' = parked.config
    /\ record' = parked.record
    /\ exit' = parked.exit
    /\ trace' = parked.trace
    /\ loaded' = parked.loaded
    /\ startCount' = parked.startCount
    /\ me' = parked.me
    /\ UNCHANGED <<setDevMode, fs, provider, nextID, runs, prev, created>>

----------------------------------------------------------------------------
(* Specification *)

Init ==
    /\ setDevMode \in DevModes
    /\ dataPath = ""
    /\ fs \in [Paths -> InitialFiles]
    /\ provider \in InitialProviders
    /\ nextID = 0
    /\ pc = "idle"
    /\ config = ZeroConfig
    /\ record = NoRecord
    /\ exit = NoExit
    /\ trace = <<>>
    /\ runs = 0
    /\ loaded = NoFile
    /\ startCount = 0
    /\ prev = NoPrev
    /\ created = {}
    /\ me = 0
    /\ parked = NoRun

Next ==
    \/ StartRun
    \/ GoInit
    \/ LoadConfigFile
    \/ ReadEnv
    \/ GetPublicIP
    \/ UpdateRecord
    \/ FindRecord
    \/ CreateRecordA
    \/ CreateRecordSRV
    \/ SaveConfig

Spec == Init /\ [][Next]_vars

\* The runs that follow a fresh installation: no state file holds a recordID yet.
InitFresh == Init /\ \A p \in Paths : fs[p].record_id = ""

SpecFresh == InitFresh /\ [][Next]_vars

\* A started process keeps running: each blocking call returns, with a result or an error.
RunStep ==
    \/ GoInit
    \/ LoadConfigFile
    \/ ReadEnv
    \/ GetPublicIP
    \/ UpdateRecord
    \/ FindRecord
    \/ CreateRecordA
    \/ CreateRecordSRV
    \/ SaveConfig

SpecLive == Spec /\ WF_vars(RunStep)

\* The runs when the caller does not serialize them: a first process, and a second one
\* started while the first is in progress.
NextOverlap ==
    \/ StartRun /\ runs = 0
    \/ RunStep
    \/ StartOverlap
    \/ Switch

\* Both processes are of the same build and find the same installed state file.
InitOverlap ==
    /\ Init
    /\ setDevMode = "false"
    /\ fs["./config.json"] = NoFile
    /\ fs["/etc/gddns/config.json"].kind = "json"
    /\ provider \in {{}, {ExtTXT, ExtOther}}

SpecOverlap == InitOverlap /\ [][NextOverlap]_vars

\* The runs when the process may be killed while it saves.
NextCrash == Next \/ CrashInSave

SpecCrash == Init /\ [][NextCrash]_vars

----------------------------------------------------------------------------
(* Vocabulary of the properties.  A Reconciler run is a run whose setup       *)
(* returned without error: the state file was decoded and the IP resolved.    *)

\* Positions in the trace of the calls of one kind.
Ops(op) == {i \in DOMAIN trace : trace[i].op = op}
Creates(type) == {i \in Ops("CreateDNSRecord") : trace[i].params.Type = type}
Updates == Ops("UpdateDNSRecord")
Lists == Ops("ListDNSRecords")
Writes == Ops("os.WriteFile")
ProviderOps == {"UpdateDNSRecord", "ListDNSRecords", "CreateDNSRecord"}

\* The run has entered main's decision (line 204) or is past it.
Reconciling == \E i \in Ops("getPublicIP") : trace[i].ok
ResolvedIP == trace[CHOOSE i \in Ops("getPublicIP") : trace[i].ok].ret
Managed == Reconciling /\ loaded.record_id # ""
Unmanaged == Reconciling /\ loaded.record_id = ""
Exited == pc = "exited"

\* The state file the build reads and writes, and the recordID it holds.
StatePath == ConfigPath(IF setDevMode = "false" THEN "/etc/gddns" ELSE ".")
PersistedRecordID == fs[StatePath].record_id

----------------------------------------------------------------------------
(* C1: a Reconciler run whose loaded recordID is non-empty issues exactly one *)
(* UpdateDNSRecord call, for id = the loaded recordID, type A, name = the     *)
(* label, content = the resolved IP, TTL 120, proxied false, in the loaded    *)
(* zone; it issues no ListDNSRecords call, no CreateDNSRecord call and no     *)
(* write of the state file, whether the update succeeds or fails.             *)
C1_ManagedRunUpdatesOnce ==
    Managed =>
        /\ Lists = {} /\ Ops("CreateDNSRecord") = {} /\ Writes = {}
        /\ fs[StatePath] = loaded
        /\ Cardinality(Updates) = IF Exited THEN 1 ELSE 0
        /\ \A i \in Updates :
             /\ trace[i].zone = loaded.zone_id
             /\ trace[i].params.ID = loaded.record_id
             /\ trace[i].params.Type = "A"
             /\ trace[i].params.Name = loaded.cname
             /\ trace[i].params.Content = ResolvedIP
             /\ trace[i].params.TTL = 120
             /\ trace[i].params.Proxied = FALSE
             /\ exit.code = IF trace[i].ok THEN 0 ELSE 1

\* A Managed run has ended on a failed update.
C1_Witness ==
    /\ Managed /\ Exited
    /\ \E i \in Updates : ~trace[i].ok /\ trace[i].params.ID = "rec123"

----------------------------------------------------------------------------
(* C2: a Reconciler run whose loaded recordID is empty and whose conflict     *)
(* check reported a count of 0 issues exactly one A-record create; it issues  *)
(* exactly one SRV-record create, after the A create, when the A create       *)
(* succeeded, and no SRV create when the A create failed.                     *)
C2_CreateAThenSRV ==
    (Unmanaged /\ \E l \in Lists : trace[l].ok /\ trace[l].ret = 0) =>
        LET a == Creates("A")
            s == Creates("SRV")
        IN /\ Ops("CreateDNSRecord") = a \cup s
           /\ Cardinality(a) <= 1 /\ Cardinality(s) <= 1
           /\ \A j \in s : \E i \in a : i < j /\ trace[i].ok
           /\ \A i \in a : \E l \in Lists : l < i
           /\ pc \notin {"main", "createA"} => Cardinality(a) = 1
           /\ pc \notin {"main", "createA", "createSRV"} =>
                \A i \in a : Cardinality(s) = IF trace[i].ok THEN 1 ELSE 0

\* Both creates have been issued, the SRV create after the A create.
C2_Witness ==
    /\ Unmanaged /\ Exited
    /\ \E i \in Creates("A"), j \in Creates("SRV") : i < j

\* The A create failed and the run ended without an SRV create.
C2_WitnessAFails ==
    /\ Unmanaged /\ Exited
    /\ \E i \in Creates("A") : ~trace[i].ok
    /\ Creates("SRV") = {}

----------------------------------------------------------------------------
(* C3: a Reconciler run whose loaded recordID is empty and whose conflict     *)
(* check reported a count above 0 has terminated with the error "record       *)
(* already exists", with no create call, no update call and no write of the   *)
(* state file.                                                               *)
C3_ConflictAborts ==
    (Unmanaged /\ \E l \in Lists : trace[l].ok /\ trace[l].ret > 0) =>
        /\ Exited
        /\ exit = [code |-> 1, msg |-> "Error veryifying dns state",
                   err |-> "record already exists"]
        /\ Ops("CreateDNSRecord") = {} /\ Updates = {} /\ Writes = {}
        /\ fs[StatePath] = loaded
        /\ created = {c \in created : c.run < runs}

\* The conflict check found the one A record that was already there.
C3_Witness ==
    /\ Unmanaged /\ Exited
    /\ \E l \in Lists : trace[l].ok /\ trace[l].ret = 1

----------------------------------------------------------------------------
(* C4: a create call is issued only while the run's recordID is empty, an     *)
(* update call only while it is non-empty, and no run issues both a create    *)
(* and an update.                                                            *)
IssuedNow(op) ==
    /\ Len(trace') = Len(trace) + 1
    /\ trace'[Len(trace')].op = op

C4_CreateXorUpdate ==
    /\ [](Ops("CreateDNSRecord") = {} \/ Updates = {})
    /\ [][/\ IssuedNow("CreateDNSRecord") => config.RecordID = ""
          /\ IssuedNow("UpdateDNSRecord") => config.RecordID # ""]_vars

\* The A create has been issued and the run's recordID is still empty.
C4_Witness ==
    /\ pc = "createSRV"
    /\ Creates("A") # {}
    /\ config.RecordID = ""

----------------------------------------------------------------------------
(* C5: when the conflict check, the A create and the SRV create of an         *)
(* Unmanaged run all succeed, the run sets recordID to the id the A create    *)
(* returned and then writes the state file exactly once, with the loaded      *)
(* domain, label and zoneID and that recordID; the write comes after both     *)
(* creates, and the run fails if the write fails.                             *)
C5_SaveAfterCreates ==
    /\ Cardinality(Writes) <= 1
    /\ \A w \in Writes :
         \E a \in Creates("A"), s \in Creates("SRV") :
            /\ a < s /\ s < w
            /\ trace[a].ok /\ trace[s].ok
            /\ trace[w].params.path = StatePath
            /\ trace[w].params.data =
                 [kind |-> "json", domain |-> loaded.domain, cname |-> loaded.cname,
                  zone_id |-> loaded.zone_id, record_id |-> trace[a].ret]
            /\ trace[a].ret # ""
            /\ exit.code = IF trace[w].ok THEN 0 ELSE 1
            /\ trace[w].ok => fs[StatePath] = trace[w].params.data
    /\ \A a \in Creates("A"), s \in Creates("SRV") :
         (trace[a].ok /\ trace[s].ok) =>
            /\ config.RecordID = trace[a].ret
            /\ pc = "save" \/ (Exited /\ Cardinality(Writes) = 1)

\* Both creates and the write succeeded.
C5_Witness ==
    /\ Exited /\ exit.code = 0
    /\ \E w \in Writes : trace[w].ok /\ trace[w].params.data.record_id = "id1"

----------------------------------------------------------------------------
(* C6: when the A create succeeds and the SRV create fails, the run has       *)
(* terminated with failure right after the failed create: no write of the     *)
(* state file (the persisted recordID stays empty) and no further provider    *)
(* call, so the A record is still held by the provider.                       *)
C6_PartialCreate ==
    \A a \in Creates("A"), s \in Creates("SRV") :
        (trace[a].ok /\ ~trace[s].ok) =>
            /\ Exited /\ exit.code = 1
            /\ exit.msg = "Error creating records"
            /\ Writes = {}
            /\ s = Len(trace)
            /\ fs[StatePath] = loaded /\ PersistedRecordID = ""
            /\ \E r \in provider :
                 /\ r.id = trace[a].ret /\ r.type = "A" /\ r.name = loaded.cname
                 /\ r.content = ResolvedIP
            /\ Cardinality(provider) = startCount + 1

\* The SRV create failed after the A create succeeded.
C6_Witness ==
    /\ Exited
    /\ \E a \in Creates("A"), s \in Creates("SRV") : trace[a].ok /\ ~trace[s].ok

----------------------------------------------------------------------------
(* C7: across any sequence of runs, in every reachable state the persisted    *)
(* recordID is empty if and only if the tool has created no record on the     *)
(* provider.  Stated here of the states between runs only, and of the runs    *)
(* that follow a fresh installation.                                          *)
C7_RecordIDIffCreated ==
    pc \in {"idle", "exited"} => (PersistedRecordID = "" <=> created = {})

(* C7 as amended: from a state file whose recordID is empty, a non-empty      *)
(* persisted recordID is the id of an A record the tool has created for the   *)
(* label, its SRV record has been created too, and the provider holds both.   *)
(* (The other direction fails: after a failed SRV create or a failed write    *)
(* the A record exists while the persisted recordID is empty.)                *)
C7_PersistedImpliesCreated ==
    PersistedRecordID # "" =>
        /\ [id |-> PersistedRecordID, type |-> "A"] \in {[id |-> c.id, type |-> c.type] : c \in created}
        /\ \E c \in created : c.type = "SRV"
        /\ \E r \in provider :
             /\ r.id = PersistedRecordID /\ r.type = "A"
             /\ r.name = fs[StatePath].cname /\ r.zone = fs[StatePath].zone_id
        /\ \E r \in provider :
             /\ r.type = "SRV" /\ r.name = fs[StatePath].cname
             /\ r.data.target = fs[StatePath].cname \o "." \o fs[StatePath].domain

\* A run has persisted the id of the A record it created.
C7_Witness ==
    /\ Exited /\ exit.code = 0
    /\ PersistedRecordID # ""
    /\ Writes # {}

----------------------------------------------------------------------------
(* C8: across any sequence of runs, once the persisted recordID is non-empty  *)
(* no step changes it; every Reconciler run that loaded a non-empty recordID  *)
(* takes the update path (it never lists, never creates, and ends having      *)
(* issued the update) and does not write the state file.                      *)
C8_OneWay ==
    /\ [][PersistedRecordID # "" => fs'[StatePath] = fs[StatePath]]_vars
    /\ [](loaded.record_id # "" =>
            /\ pc \notin {"createA", "createSRV", "save"}
            /\ \A i \in DOMAIN trace : trace[i].op \notin {"ListDNSRecords", "CreateDNSRecord", "os.WriteFile"}
            /\ (Reconciling /\ Exited) => Updates # {}
            /\ PersistedRecordID = loaded.record_id)

\* A later run finds the recordID an earlier run of the tool persisted and updates.
C8_Witness ==
    /\ Exited /\ Updates # {}
    /\ loaded.record_id = "id1"
    /\ PersistedRecordID = "id1"

----------------------------------------------------------------------------
(* C9: if the tool created the A record in an earlier run, the provider still *)
(* holds it and no recordID is persisted, then a Reconciler run takes the     *)
(* conflict-check path, fails with the error "record already exists", and     *)
(* issues no create, no update and no write of the state file.                *)
LostRecordID ==
    /\ PersistedRecordID = ""
    /\ \E c \in created :
         /\ c.type = "A" /\ c.run < runs
         /\ \E r \in provider : r.id = c.id

BlockedRun ==
    /\ Ops("CreateDNSRecord") = {} /\ Updates = {} /\ Writes = {}
    /\ pc \notin {"createA", "createSRV", "save"}
    /\ Exited => exit.code = 1
    /\ (Reconciling /\ Exited) => Cardinality(Lists) = 1

C9_BlockedByConflict ==
    LostRecordID =>
        /\ BlockedRun
        /\ (Reconciling /\ Exited) => exit.err = "record already exists"

(* C9 as amended: ... a Reconciler run takes the conflict-check path and      *)
(* fails there, with the error "record already exists" when the list call     *)
(* answers and with the list call's own error when it does not; it issues no  *)
(* create, no update and no write of the state file.                          *)
C9_BlockedAtConflictCheck ==
    LostRecordID =>
        /\ BlockedRun
        /\ (Reconciling /\ Exited) =>
             /\ exit.msg = "Error veryifying dns state"
             /\ \A l \in Lists :
                  /\ trace[l].ok => trace[l].ret > 0
                  /\ exit.err = IF trace[l].ok THEN "record already exists" ELSE "provider error"

\* A run after a lost recordID has stopped on the conflict.
C9_Witness ==
    /\ LostRecordID /\ Reconciling /\ Exited
    /\ exit.err = "record already exists"

----------------------------------------------------------------------------
(* C10: two consecutive Reconciler runs from the same Managed state with the  *)
(* same resolved IP each issue one update call, the two with the same zone,   *)
(* record id, type, name, content, TTL, proxied flag and comment; neither     *)
(* issues a create call, and the provider holds as many records after the     *)
(* second run as before the first.                                            *)
C10_UpdateIdempotent ==
    (Managed /\ Exited /\ prev.managed /\ prev.loaded = loaded /\ prev.ip = ResolvedIP) =>
        LET before == {i \in DOMAIN prev.trace : prev.trace[i].op = "UpdateDNSRecord"}
        IN /\ Cardinality(before) = 1 /\ Cardinality(Updates) = 1
           /\ \A i \in before, j \in Updates :
                /\ prev.trace[i].params = trace[j].params
                /\ prev.trace[i].zone = trace[j].zone
           /\ \A i \in DOMAIN prev.trace : prev.trace[i].op # "CreateDNSRecord"
           /\ Ops("CreateDNSRecord") = {}
           /\ Cardinality(provider) = prev.count
           /\ startCount = prev.count

\* Two runs in a row have updated the same record to the same address.
C10_Witness ==
    /\ Managed /\ Exited /\ exit.code = 0
    /\ prev.managed /\ prev.loaded = loaded /\ prev.ip = ResolvedIP
    /\ \E i \in DOMAIN prev.trace : prev.trace[i].op = "UpdateDNSRecord" /\ prev.trace[i].ok

----------------------------------------------------------------------------
(* C11: a crash at any point during the save of the state file leaves the     *)
(* file with either the complete prior content or the complete new content,   *)
(* never a cut-short one.                                                     *)
C11_SaveCrashSafe ==
    (Exited /\ exit.err = "killed") =>
        fs[StatePath] \in {loaded, Marshal(SaveData(config))}

----------------------------------------------------------------------------
(* C12: the content a save writes depends only on domain, label, zoneID and   *)
(* recordID: it is the content the same run would have written with any other *)
(* credentials and any other resolved IP, it has the four keys of the state   *)
(* file and no others, and none of its values is a credential or the IP.      *)
OtherEnvs ==
    [CFEmail : Emails \cup {"other@example.com"}, CFApiKey : ApiKeys \cup {"key2"}, SysIP : IPs]

C12_SaveIgnoresEnv ==
    \A w \in Writes :
        LET data == trace[w].params.data
        IN /\ DOMAIN data = {"kind", "domain", "cname", "zone_id", "record_id"}
           /\ \A env \in OtherEnvs : data = Marshal(SaveData([config EXCEPT !.Env = env]))
           /\ {data.domain, data.cname, data.zone_id, data.record_id}
                \cap {config.Env.CFApiKey, config.Env.CFEmail, config.Env.SysIP} = {}
           /\ trace[w].ok => fs[StatePath] = data

\* A run that resolved the second address has saved its state.
C12_Witness ==
    /\ Exited /\ config.Env.CFApiKey = "key" /\ config.Env.SysIP = "198.51.100.2"
    /\ \E w \in Writes : trace[w].ok /\ fs[StatePath].record_id = "id1"

----------------------------------------------------------------------------
(* C13: when the state file is absent or unreadable, or a credential is       *)
(* missing, the run has terminated with failure without network activity: no  *)
(* IP resolution, no provider call, no write of the state file; after a       *)
(* failed load the run holds no state (none is made up).                      *)
NoNetworkNoWrite ==
    /\ Exited /\ exit.code = 1
    /\ Ops("getPublicIP") = {}
    /\ \A i \in DOMAIN trace : trace[i].op \notin ProviderOps \cup {"os.WriteFile"}
    /\ ~Reconciling

C13_FatalBeforeNetwork ==
    /\ \A i \in Ops("os.Open") :
         ~trace[i].ok =>
            /\ NoNetworkNoWrite
            /\ i = Len(trace)
            /\ exit.msg = "Setup failed"
            /\ loaded = NoFile /\ config = ZeroConfig
    /\ \A i \in Ops("os.Getenv") :
         (trace[i].params.key = "" \/ trace[i].params.email = "") =>
            /\ NoNetworkNoWrite
            /\ i = Len(trace)
            /\ fs[StatePath] = loaded

\* The API key is set, the account email is not, and the run has stopped.
C13_Witness ==
    /\ Exited
    /\ \E i \in Ops("os.Getenv") : trace[i].params.key = "key" /\ trace[i].params.email = ""

\* The state file is absent and the run has stopped.
C13_WitnessNoFile ==
    /\ Exited /\ fs[StatePath] = NoFile
    /\ \E i \in Ops("os.Open") : ~trace[i].ok

----------------------------------------------------------------------------
(* C14: in an Unmanaged run with no conflict the A create is called with type *)
(* A, name = the label, content = the resolved IP, TTL 300, proxied false, and *)
(* the SRV create with target = label "." domain, service _minecraft, proto   *)
(* _tcp, priority 0, weight 5, port 25565, TTL 900, proxied false.  Label     *)
(* "home", domain "example.com", IP "203.0.113.7" give the A content          *)
(* "203.0.113.7" and the SRV target "home.example.com".                       *)
C14_CreateParameters ==
    /\ Ops("CreateDNSRecord") = Creates("A") \cup Creates("SRV")
    /\ \A a \in Creates("A") :
         LET p == trace[a].params
         IN /\ Unmanaged /\ \E l \in Lists : l < a /\ trace[l].ok /\ trace[l].ret = 0
            /\ trace[a].zone = loaded.zone_id
            /\ p.Name = loaded.cname
            /\ p.Content = ResolvedIP
            /\ p.TTL = 300
            /\ p.Proxied = FALSE
            /\ (loaded.cname = "home" /\ ResolvedIP = "203.0.113.7") =>
                  (p.Name = "home" /\ p.Content = "203.0.113.7")
    /\ \A s \in Creates("SRV") :
         LET p == trace[s].params
         IN /\ trace[s].zone = loaded.zone_id
            /\ p.Name = loaded.cname
            /\ p.Data.target = loaded.cname \o "." \o loaded.domain
            /\ p.Data.service = "_minecraft"
            /\ p.Data.proto = "_tcp"
            /\ p.Data.priority = 0
            /\ p.Data.weight = 5
            /\ p.Data.port = 25565
            /\ p.TTL = 900
            /\ p.Proxied = FALSE
            /\ (loaded.cname = "home" /\ loaded.domain = "example.com") =>
                  p.Data.target = "home.example.com"

\* The scenario of the example: both creates issued for home.example.com.
C14_Witness ==
    /\ \E a \in Creates("A") : trace[a].params.Content = "203.0.113.7"
    /\ \E s \in Creates("SRV") : trace[s].params.Data.target = "home.example.com"

----------------------------------------------------------------------------
(* C15: a run issues at most one provider mutation sequence - one update, or  *)
(* one A create followed by at most one SRV create, never both and never      *)
(* repeated - and writes the state file at most once; once init() has         *)
(* returned, the state file is read exactly once, as the first call of main,  *)
(* before the IP resolution and before any provider call.                     *)
C15_OneSequencePerRun ==
    /\ Cardinality(Updates) <= 1
    /\ Cardinality(Creates("A")) <= 1
    /\ Cardinality(Creates("SRV")) <= 1
    /\ Ops("CreateDNSRecord") = Creates("A") \cup Creates("SRV")
    /\ Updates = {} \/ Ops("CreateDNSRecord") = {}
    /\ \A s \in Creates("SRV") : \E a \in Creates("A") : a < s
    /\ Cardinality(Writes) <= 1
    /\ Cardinality(Ops("os.Open")) <= 1
    /\ \A i \in DOMAIN trace :
         trace[i].op \in ProviderOps \cup {"getPublicIP", "os.WriteFile", "os.Getenv"} =>
            \E o \in Ops("os.Open") : o < i /\ trace[o].ok
    /\ (pc \notin {"idle", "init", "load"} /\ \E d \in Ops("godotenv.Load") : trace[d].ok) =>
            Ops("os.Open") = {2}

\* A run has read the state file once and gone through both creates and the write.
C15_Witness ==
    /\ Exited
    /\ Cardinality(Ops("os.Open")) = 1
    /\ Creates("A") # {} /\ Creates("SRV") # {} /\ Writes # {}

----------------------------------------------------------------------------
(* C16: every failure is terminal and nothing is retried: a failed call       *)
(* (godotenv, state load, credentials, IP resolution, list, update, create A, *)
(* create SRV, write) and a conflict found by the list are the last call of   *)
(* their run, which has exited with status 1; no call is issued twice, and a  *)
(* failed update is followed by no list and no create.  Every started run     *)
(* terminates, given that each of its calls returns.                          *)
Running == pc \notin {"idle", "exited"}

FailureIsTerminal ==
    /\ \A i \in DOMAIN trace :
         (~trace[i].ok \/ (trace[i].op = "ListDNSRecords" /\ trace[i].ret > 0)) =>
            /\ i = Len(trace)
            /\ Exited /\ exit.code = 1
    /\ \A i, j \in DOMAIN trace :
         (trace[i].op = trace[j].op /\ trace[i].params = trace[j].params) => i = j
    /\ (\E u \in Updates : ~trace[u].ok) => (Lists = {} /\ Ops("CreateDNSRecord") = {})
    /\ Exited => (exit.code = 0 <=>
                    \A i \in DOMAIN trace :
                       trace[i].ok /\ ~(trace[i].op = "ListDNSRecords" /\ trace[i].ret > 0))
    /\ (Exited /\ exit.code = 0) => (Updates # {} \/ Writes # {})

C16_FailFastAndTerminate ==
    /\ []FailureIsTerminal
    /\ [][(Exited /\ exit.code = 1) => (trace' = <<>> /\ pc' = "init")]_vars
    /\ Running ~> Exited

\* A run has stopped on a failed IP resolution.
C16_Witness ==
    /\ Exited /\ exit.msg = "Error getting public IP"
    /\ ~trace[Len(trace)].ok

----------------------------------------------------------------------------
(* C17: a run that has loaded the state file and found both credentials calls *)
(* the IP resolver exactly once, after the load and the credential check and  *)
(* before any provider call; when the call fails the run has terminated with  *)
(* no provider call and no write; when it succeeds the body it returned is    *)
(* the content of the update call and of the A create call, unchanged.        *)
C17_ResolveOnceAndPassThrough ==
    LET resolves == Ops("getPublicIP")
    IN /\ Cardinality(resolves) <= 1
       /\ \A g \in resolves :
            /\ \E o \in Ops("os.Open"), c \in Ops("os.Getenv") :
                 o < c /\ c < g /\ trace[o].ok /\ trace[c].ok
            /\ \A i \in DOMAIN trace :
                 trace[i].op \in ProviderOps \cup {"os.WriteFile"} => (g < i /\ trace[g].ok)
            /\ ~trace[g].ok =>
                 /\ Exited /\ exit.code = 1 /\ g = Len(trace)
                 /\ exit.msg = "Error getting public IP"
            /\ trace[g].ok =>
                 /\ trace[g].ret \in IPs
                 /\ config.Env.SysIP = trace[g].ret
                 /\ \A u \in Updates : trace[u].params.Content = trace[g].ret
                 /\ \A a \in Creates("A") : trace[a].params.Content = trace[g].ret
       /\ \A i \in DOMAIN trace : trace[i].op \in ProviderOps \cup {"os.WriteFile"} => resolves # {}
       /\ ((\E c \in Ops("os.Getenv") : trace[c].ok) /\ pc # "ip") => Cardinality(resolves) = 1

\* The echo service answered with an error page, and it went into the A create as it was.
C17_Witness ==
    /\ \E g \in Ops("getPublicIP") : trace[g].ok /\ trace[g].ret = "502 Bad Gateway"
    /\ \E a \in Creates("A") : trace[a].ok /\ trace[a].params.Content = "502 Bad Gateway"

----------------------------------------------------------------------------
(* C18: over any sequence of serialized runs, whatever the outcome of each    *)
(* call, the tool's successful A creates number at most one and its           *)
(* successful SRV creates at most one, and the provider holds at most one     *)
(* record of each type that the tool created.                                 *)
CreatedOfType(type) == {c \in created : c.type = type}

C18_AtMostOneCreateEach ==
    /\ Cardinality(CreatedOfType("A")) <= 1
    /\ Cardinality(CreatedOfType("SRV")) <= 1
    /\ created = CreatedOfType("A") \cup CreatedOfType("SRV")
    /\ \A c \in created : Cardinality({r \in provider : r.id = c.id /\ r.type = c.type}) = 1
    /\ Cardinality(provider) = Cardinality({r \in provider : r.id \in {"rec123", "ext1", "ext2"}})
                                   + Cardinality(created)
    /\ nextID = Cardinality(created)

\* A later run has ended after an earlier one created the A record and failed on the SRV record.
C18_Witness ==
    /\ Exited /\ me = 3
    /\ \E c \in CreatedOfType("A") : c.run = 1
    /\ CreatedOfType("SRV") = {}
    /\ prev = NoPrev /\ Lists # {}

----------------------------------------------------------------------------
(* C19: nothing but the conflict check stands between a run and its creates.  *)
(* When a second run starts while a first is in progress, every A create of   *)
(* either run follows, in that run, a ListDNSRecords call that answered with  *)
(* zero matches; each run creates at most one A record and writes the state   *)
(* file at most once, with the id of its own A record; and the provider ends  *)
(* with as many A records of the tool as there were runs that got past the    *)
(* check. Two such runs are reachable (C19_Witness), which is the state the   *)
(* serialized runs of C18 never reach.                                        *)
BothTraces == {trace, parked.trace}

PassedConflictCheck(t, i) ==
    \E j \in 1..(i - 1) : t[j].op = "ListDNSRecords" /\ t[j].ok /\ t[j].ret = 0

CreatedA(t) ==
    {i \in DOMAIN t : t[i].op = "CreateDNSRecord" /\ t[i].params.Type = "A" /\ t[i].ok}

SavedIDs(t) ==
    {t[i].params.data.record_id : i \in {k \in DOMAIN t : t[k].op = "os.WriteFile" /\ t[k].ok}}

C19_OnlyTheConflictCheckGuards ==
    /\ \A t \in BothTraces :
         /\ \A i \in DOMAIN t :
              (t[i].op = "CreateDNSRecord" /\ t[i].params.Type = "A") => PassedConflictCheck(t, i)
         /\ Cardinality(CreatedA(t)) <= 1
         /\ Cardinality({k \in DOMAIN t : t[k].op = "os.WriteFile"}) <= 1
         /\ \A id \in SavedIDs(t) : \E i \in CreatedA(t) : t[i].ret = id
    /\ Cardinality(CreatedOfType("A"))
         = Cardinality(CreatedA(trace)) + Cardinality(CreatedA(parked.trace))
    /\ \A c \in CreatedOfType("A") : \E r \in provider : r.id = c.id /\ r.type = "A"

\* Both runs loaded the same Unmanaged state, both passed the conflict check, both created an
\* A record, and both wrote the state file, each with the id of its own record.
C19_Witness ==
    /\ pc = "exited" /\ parked.pc = "exited"
    /\ loaded = parked.loaded /\ loaded.kind = "json" /\ loaded.record_id = ""
    /\ Cardinality(CreatedOfType("A")) = 2
    /\ \E a \in SavedIDs(trace), b \in SavedIDs(parked.trace) :
         /\ a # b
         /\ PersistedRecordID \in {a, b}
====
